---- MODULE Spec2Model ----
(***************************************************************************)
(* Model of exampleFunctions.js: getTotalLikes and getMostPopularBlog, two *)
(* functions over a caller-supplied array of user records, each holding an *)
(* array of blog records.  The state is the caller's array (the heap the   *)
(* functions are handed), the last call made and its outcome.              *)
(***************************************************************************)
EXTENDS Integers, Sequences, FiniteSets, TLC

VARIABLES users, fresh, fn, username, outcome

vars == <<users, fresh, fn, username, outcome>>

(* ------------------------------ bounds --------------------------------- *)

\* most users in the collection
MaxUsers == 2
\* most blogs in the whole collection, summed over its users
MaxTotalBlogs == 3
\* greatest likes value of a blog
MaxLikes == 2

(* --------------------------- JavaScript values ------------------------- *)

Undefined == [type |-> "undefined"]
Num(n) == [type |-> "number", val |-> n]
Obj(o) == [type |-> "object", val |-> o]
ErrorValue(name) == [type |-> "error", val |-> name]

Return(v) == [kind |-> "return", value |-> v]
Throw(name) == [kind |-> "throw", value |-> ErrorValue(name)]
NoOutcome == [kind |-> "none", value |-> Undefined]

(* ------------------------------ data model ----------------------------- *)

\* usernames carried by the users of the collection
Usernames == {"user1", "user2"}
\* usernames a caller asks for; "user3" belongs to no user
QueryNames == Usernames \cup {"user3"}

\* the blog written at position i of a user's blogs: "Entry i"
Blog(i, likes) ==
  [title |-> <<"Entry", i>>, likes |-> likes, content |-> <<"Blog", i, "Content...">>]

\* the blogs arrays of k blogs
BlogArrays(k) ==
  { [i \in 1..k |-> Blog(i, l[i])] : l \in [1..k -> 0..MaxLikes] }

RECURSIVE UserArraysWith(_, _)
\* the user arrays of n users holding at most budget blogs together
UserArraysWith(n, budget) ==
  IF n = 0 THEN { <<>> }
  ELSE UNION { { <<[username |-> nm, blogs |-> bs]>> \o rest :
                   nm \in Usernames, bs \in BlogArrays(k),
                   rest \in UserArraysWith(n - 1, budget - k) } :
               k \in 0..budget }

UserArrays == UNION { UserArraysWith(n, MaxTotalBlogs) : n \in 0..MaxUsers }

(* ------------------------- Array.prototype.find ------------------------ *)

\* user => user.username === username
FindCallback(user, name) == user.username = name

\* find() scanning from the end of the array: the last match instead of the first
FindIndexLast(userArray, name) ==
  IF \E i \in 1..Len(userArray) : FindCallback(userArray[i], name)
  THEN CHOOSE i \in 1..Len(userArray) :
         /\ FindCallback(userArray[i], name)
         /\ \A j \in (i + 1)..Len(userArray) : ~FindCallback(userArray[j], name)
  ELSE 0

\* the 1-based position find() stops at, 0 when no element satisfies the callback
FindIndex(userArray, name) ==
  IF \E i \in 1..Len(userArray) : FindCallback(userArray[i], name)
  THEN CHOOSE i \in 1..Len(userArray) :
         /\ FindCallback(userArray[i], name)
         /\ \A j \in 1..(i - 1) : ~FindCallback(userArray[j], name)
  ELSE 0

(* ------------------------------ getTotalLikes -------------------------- *)

\* (total, blog) => total += 1 : counts the blogs instead of their likes
TotalCallbackCount(total, blog) ==
  [ret |-> total + 1, blog |-> blog]

\* (total, blog) => total = blog.likes : overwrites the running total
TotalCallbackAssign(total, blog) ==
  [ret |-> blog.likes, blog |-> blog]

\* (total, blog) => blog.likes += total : the operands of += exchanged, which
\* writes the running total into the blog record
TotalCallbackWrites(total, blog) ==
  [ret |-> blog.likes + total, blog |-> [blog EXCEPT !.likes = blog.likes + total]]

\* (total, blog) => total += blog.likes : the value returned and the blog
\* record as the callback leaves it
TotalCallback(total, blog) ==
  [ret |-> total + blog.likes, blog |-> blog]

RECURSIVE ReduceTotal(_, _, _)
\* user.blogs.reduce(callback, 0) from element i on, with accumulator acc:
\* the final accumulator and the blogs array after the callbacks ran
ReduceTotal(blogs, i, acc) ==
  IF i > Len(blogs) THEN [acc |-> acc, blogs |-> blogs]
  ELSE LET r == TotalCallback(acc, blogs[i])
       IN  ReduceTotal([blogs EXCEPT ![i] = r.blog], i + 1, r.ret)

\* the outcome of getTotalLikes(userArray, name) and the array after the call
getTotalLikes(userArray, name) ==
  LET u == FindIndex(userArray, name)
  IN  IF u = 0
      THEN [outcome |-> Throw("TypeError"), heap |-> userArray]
      ELSE LET r == ReduceTotal(userArray[u].blogs, 1, 0)
           IN  [outcome |-> Return(Num(r.acc)),
                heap |-> [userArray EXCEPT ![u].blogs = r.blogs]]

(* ---------------------------- getMostPopularBlog ----------------------- *)

\* the tracking object the reduce starts from: {index: undefined, likes: 0}
MaxInit == [index |-> Undefined, likes |-> 0]

\* the comparison written >= instead of >
MaxCallbackGeq(max, blog, index) ==
  IF blog.likes >= max.likes
  THEN [ret |-> [index |-> Num(index), likes |-> blog.likes], blog |-> blog]
  ELSE [ret |-> max, blog |-> blog]

\* (max, blog, index) => blog.likes > max.likes ? {index, likes} : max
\* index is the 0-based array index
MaxCallback(max, blog, index) ==
  IF blog.likes > max.likes
  THEN [ret |-> [index |-> Num(index), likes |-> blog.likes], blog |-> blog]
  ELSE [ret |-> max, blog |-> blog]

RECURSIVE ReduceMax(_, _, _)
ReduceMax(blogs, i, acc) ==
  IF i > Len(blogs) THEN [acc |-> acc, blogs |-> blogs]
  ELSE LET r == MaxCallback(acc, blogs[i], i - 1)
       IN  ReduceMax([blogs EXCEPT ![i] = r.blog], i + 1, r.ret)

\* user.blogs[index]: the element at a 0-based number index inside the array,
\* undefined for any other key
ArrayGet(blogs, index) ==
  IF index.type = "number" /\ index.val \in 0..(Len(blogs) - 1)
  THEN Obj(blogs[index.val + 1])
  ELSE Undefined

getMostPopularBlog(userArray, name) ==
  LET u == FindIndex(userArray, name)
  IN  IF u = 0
      THEN [outcome |-> Throw("TypeError"), heap |-> userArray]
      ELSE LET r == ReduceMax(userArray[u].blogs, 1, MaxInit)
           IN  [outcome |-> Return(ArrayGet(r.blogs, r.acc.index)),
                heap |-> [userArray EXCEPT ![u].blogs = r.blogs]]

(* ------------------------------ the callers ---------------------------- *)

Init ==
  /\ users \in UserArrays
  /\ fresh = users
  /\ fn = "none"
  /\ username = "none"
  /\ outcome = NoOutcome

CallGetTotalLikes ==
  \E name \in QueryNames :
    LET r == getTotalLikes(users, name)
    IN  /\ users' = r.heap
        /\ outcome' = r.outcome
        /\ fn' = "getTotalLikes"
        /\ username' = name
        /\ UNCHANGED fresh

CallGetMostPopularBlog ==
  \E name \in QueryNames :
    LET r == getMostPopularBlog(users, name)
    IN  /\ users' = r.heap
        /\ outcome' = r.outcome
        /\ fn' = "getMostPopularBlog"
        /\ username' = name
        /\ UNCHANGED fresh

Next == CallGetTotalLikes \/ CallGetMostPopularBlog

Spec == Init /\ [][Next]_vars

(* --------------------- vocabulary of the properties -------------------- *)

\* some user of the collection carries the username of the last call
Matched == \E i \in 1..Len(users) : users[i].username = username

\* the position of the first user carrying that username
FirstMatch ==
  CHOOSE i \in 1..Len(users) :
    /\ users[i].username = username
    /\ \A j \in 1..Len(users) : users[j].username = username => i <= j

MatchedBlogs == users[FirstMatch].blogs

RECURSIVE WeightedCount(_, _)
\* the sum of v * (number of blogs with v likes) over the likes values 1..v
WeightedCount(blogs, v) ==
  IF v <= 0 THEN 0
  ELSE v * Cardinality({ i \in 1..Len(blogs) : blogs[i].likes = v })
       + WeightedCount(blogs, v - 1)


\* the positions of the blogs no other blog has more likes than
TopPositions(blogs) ==
  { i \in 1..Len(blogs) : \A j \in 1..Len(blogs) : blogs[j].likes <= blogs[i].likes }

\* the least position of a non-empty set of positions
Least(S) == CHOOSE i \in S : \A j \in S : i <= j

\* the likes of a blogs array added up, independently of the order
SumLikes(blogs) ==
  IF blogs = <<>> THEN 0
  ELSE WeightedCount(blogs, blogs[Least(TopPositions(blogs))].likes)

\* the collection with the blogs of user u reordered by the permutation p
WithBlogsPermuted(u, p) ==
  [users EXCEPT ![u].blogs = [i \in 1..Len(users[u].blogs) |-> users[u].blogs[p[i]]]]

BlogPermutations(u) == Permutations(1..Len(users[u].blogs))

(* ------------------------------- C1 ------------------------------------ *)

\* C1: for a username that matches a user, getTotalLikes returns exactly the
\* sum of the likes of the matched user's blogs, 0 when there are no blogs.
C1_TotalIsSumOfLikes ==
  (fn = "getTotalLikes" /\ Matched) =>
     /\ outcome = Return(Num(SumLikes(MatchedBlogs)))
     /\ (MatchedBlogs = <<>> => outcome = Return(Num(0)))

C1_Witness ==
  /\ fn = "getTotalLikes" /\ Matched
  /\ Len(MatchedBlogs) >= 2
  /\ \A i \in 1..Len(MatchedBlogs) : MatchedBlogs[i].likes > 0
  /\ outcome.kind = "return"

(* ------------------------------- C2 ------------------------------------ *)

\* C2: for a username matching a user with a non-empty blogs array,
\* getMostPopularBlog returns a whole blog record that is an element of that
\* array and whose likes are the highest among the user's blogs.
C2_ReturnsTopBlog ==
  (fn = "getMostPopularBlog" /\ Matched /\ MatchedBlogs # <<>>) =>
     /\ outcome.kind = "return"
     /\ outcome.value.type = "object"
     /\ \E i \in TopPositions(MatchedBlogs) : outcome.value.val = MatchedBlogs[i]

(* ------------------------------- C3 ------------------------------------ *)

\* C3: for a username no user of the collection carries, both functions end
\* in an explicit UserNotFound error.
C3_UserNotFound ==
  (fn # "none" /\ ~Matched) => outcome = Throw("UserNotFound")

(* ------------------------------- C4 ------------------------------------ *)

\* C4: for a matched user with an empty blogs array, getMostPopularBlog ends
\* in an explicit NoBlogsForUser error instead of the value of an
\* undefined-index lookup.
C4_NoBlogsForUser ==
  (fn = "getMostPopularBlog" /\ Matched /\ MatchedBlogs = <<>>) =>
     outcome = Throw("NoBlogsForUser")

(* ------------------------------- C5 ------------------------------------ *)

\* C5: when several blogs of the matched user share the maximum likes value,
\* getMostPopularBlog returns the first of them in the blogs array.
C5_TieKeepsEarliest ==
  (/\ fn = "getMostPopularBlog" /\ Matched
   /\ Cardinality(TopPositions(MatchedBlogs)) >= 2) =>
     outcome = Return(Obj(MatchedBlogs[Least(TopPositions(MatchedBlogs))]))

(* ------------------------------- C6 ------------------------------------ *)

\* C6: getTotalLikes returns the same integer under every reordering of the
\* matched user's blogs.
C6_TotalPermutationInvariant ==
  (fn = "getTotalLikes" /\ Matched) =>
     \A p \in BlogPermutations(FirstMatch) :
        getTotalLikes(WithBlogsPermuted(FirstMatch, p), username).outcome = outcome

C6_Witness ==
  /\ fn = "getTotalLikes" /\ Matched
  /\ Len(MatchedBlogs) >= 2
  /\ MatchedBlogs[1].likes # MatchedBlogs[2].likes
  /\ outcome.kind = "return"

(* ------------------------------- C7 ------------------------------------ *)

\* C7: when exactly one blog of the matched user has the strictly greatest
\* likes value, getMostPopularBlog returns that blog under every reordering
\* of the user's blogs.
C7_StrictMaxPermutationInvariant ==
  (/\ fn = "getMostPopularBlog" /\ Matched
   /\ Cardinality(TopPositions(MatchedBlogs)) = 1) =>
     \A p \in BlogPermutations(FirstMatch) :
        getMostPopularBlog(WithBlogsPermuted(FirstMatch, p), username).outcome
          = Return(Obj(MatchedBlogs[Least(TopPositions(MatchedBlogs))]))

(* ------------------------------- C8 ------------------------------------ *)

\* C8: no call changes the collection it is handed: after any calls, failed
\* or not, the collection equals the copy taken before the first call, and
\* the last call's outcome is the one the same call has on that copy.
C8_ArgumentsUnchanged ==
  /\ users = fresh
  /\ fn = "getTotalLikes" => outcome = getTotalLikes(fresh, username).outcome
  /\ fn = "getMostPopularBlog" => outcome = getMostPopularBlog(fresh, username).outcome

C8_Witness ==
  /\ fn = "getTotalLikes" /\ Matched
  /\ Len(MatchedBlogs) >= 2
  /\ MatchedBlogs[1].likes > 0 /\ MatchedBlogs[2].likes > 0
  /\ outcome.kind = "return"
  /\ users = fresh

(* ------------------------------- C9 ------------------------------------ *)

C10_FirstMatchWins ==
  (fn # "none" /\ Matched) =>
     LET only == << users[FirstMatch] >>
         others == { j \in 1..Len(users) : j # FirstMatch }
         swapped == { [users EXCEPT ![j].blogs = bs] :
                        j \in others, bs \in BlogArrays(0) \cup BlogArrays(1) }
     IN  /\ fn = "getTotalLikes" =>
              /\ outcome = Return(Num(SumLikes(only[1].blogs)))
              /\ \A us \in swapped : getTotalLikes(us, username).outcome = outcome
         /\ fn = "getMostPopularBlog" =>
              /\ outcome.value \in {Undefined} \cup { Obj(only[1].blogs[i]) : i \in 1..Len(only[1].blogs) }
              /\ \A us \in swapped : getMostPopularBlog(us, username).outcome = outcome

C10_Witness ==
  /\ fn = "getTotalLikes" /\ Len(users) >= 2
  /\ users[1].username = username /\ users[2].username = username
  /\ SumLikes(users[1].blogs) # SumLikes(users[2].blogs)
  /\ outcome.kind = "return"

====
